---- MODULE Spec2Model ----
(***************************************************************************)
(* A model of the safe SQL query subsystem of the MySQL MCP tool server    *)
(* (src/sql_tool.py): the read-only guard and guarded executor, the schema *)
(* catalog, the keyword-driven query synthesizer, the structured query     *)
(* builder, the relationship analyzer and the query linter; of its tools   *)
(* as tasks on the event loop; and of the SQL tools of the repository's    *)
(* second server (src/weather.py).                                         *)
(*                                                                         *)
(* Texts are sequences of one-character strings, so that strip, split,     *)
(* upper/lower, substring search and formatting are computed and not       *)
(* assumed.  A JSON reply is modelled by the value json.dumps writes.      *)
(***************************************************************************)
EXTENDS Naturals, Integers, Sequences, FiniteSets, TLC

VARIABLES
    db,            \* the tables of the database behind the shared connection
    call,          \* the operation invoked last and its arguments
    ret,           \* what that invocation handed back to its caller
    executed,      \* the statements given to cursor.execute during that invocation
    open_cursors,  \* cursors acquired by finished invocations and never closed
    tasks          \* the invocations handed to the event loop, each with its position

vars == <<db, call, ret, executed, open_cursors, tasks>>

----------------------------------------------------------------------------
(* Bounds of the model.                                                    *)

\* the most tables a database of the model holds
MaxTables == 2
\* the most leaked cursors the model counts
MaxOpenCursors == 2
\* the most keyword phrases of a synthesizer request
MaxKeywords == 2
\* the most conditions of a where_conditions mapping
MaxConditions == 2
\* the most invocations pending on the event loop at once
MaxTasks == 2

----------------------------------------------------------------------------
(* Texts: Python's str operations on sequences of characters.              *)

LowerAlpha == <<"a","b","c","d","e","f","g","h","i","j","k","l","m","n","o","p","q","r","s","t","u","v","w","x","y","z">>
UpperAlpha == <<"A","B","C","D","E","F","G","H","I","J","K","L","M","N","O","P","Q","R","S","T","U","V","W","X","Y","Z">>

\* the characters str.strip() and str.split() treat as white space
Whitespace == {" ", "\t", "\n", "\r", "\f"}

UpperChar(c) ==
    IF \E i \in 1..Len(LowerAlpha) : LowerAlpha[i] = c
    THEN UpperAlpha[CHOOSE i \in 1..Len(LowerAlpha) : LowerAlpha[i] = c]
    ELSE c

LowerChar(c) ==
    IF \E i \in 1..Len(UpperAlpha) : UpperAlpha[i] = c
    THEN LowerAlpha[CHOOSE i \in 1..Len(UpperAlpha) : UpperAlpha[i] = c]
    ELSE c

\* str.upper()
Upper(s) == [i \in 1..Len(s) |-> UpperChar(s[i])]

\* str.lower()
Lower(s) == [i \in 1..Len(s) |-> LowerChar(s[i])]

\* needle in hay
Contains(hay, needle) ==
    \E i \in 0..(Len(hay) - Len(needle)) :
        SubSeq(hay, i + 1, i + Len(needle)) = needle

RECURSIVE LStrip(_)
LStrip(s) ==
    IF s # <<>> /\ Head(s) \in Whitespace THEN LStrip(Tail(s)) ELSE s

RECURSIVE RStrip(_)
RStrip(s) ==
    IF s # <<>> /\ s[Len(s)] \in Whitespace
    THEN RStrip(SubSeq(s, 1, Len(s) - 1))
    ELSE s

\* str.strip()
Strip(s) == RStrip(LStrip(s))

\* the length of the longest prefix of s without white space
RECURSIVE TokenLen(_)
TokenLen(s) ==
    IF s = <<>> \/ Head(s) \in Whitespace THEN 0 ELSE 1 + TokenLen(Tail(s))

\* str.split(): the maximal runs of characters that are not white space
RECURSIVE Split(_)
Split(s) ==
    LET t == LStrip(s)
        n == TokenLen(t)
    IN  IF t = <<>> THEN <<>>
        ELSE <<SubSeq(t, 1, n)>> \o Split(SubSeq(t, n + 1, Len(t)))

\* sep.join(parts)
RECURSIVE Join(_, _)
Join(sep, parts) ==
    IF parts = <<>> THEN <<>>
    ELSE IF Len(parts) = 1 THEN parts[1]
    ELSE parts[1] \o sep \o Join(sep, Tail(parts))

Digits == <<"0","1","2","3","4","5","6","7","8","9">>

\* str(n) of a natural number
RECURSIVE NatStr(_)
NatStr(n) ==
    IF n < 10 THEN <<Digits[n + 1]>>
    ELSE NatStr(n \div 10) \o <<Digits[(n % 10) + 1]>>

\* str(n) of an integer
IntStr(n) == IF n < 0 THEN <<"-">> \o NatStr(0 - n) ELSE NatStr(n)

----------------------------------------------------------------------------
(* The database behind the connection, and the driver.                     *)

\* cursorclass of the shared connection: rows are column-name-keyed mappings
cursorclass == "DictCursor"

T_orders == <<"o","r","d","e","r","s">>
T_users == <<"u","s","e","r","s">>
T_events == <<"e","v","e","n","t","s">>
T_missing == <<"m","i","s","s","i","n","g">>

Column(field, type) ==
    [Field |-> field, Type |-> type, Null |-> "YES", Key |-> "", Default |-> "NULL", Extra |-> ""]

\* the tables a database of the model is made of: name and DESCRIBE rows
TableCatalog ==
    { [name |-> T_orders,
       rows |-> << Column(<<"i","d">>, <<"i","n","t","(","1","1",")">>),
                   Column(<<"s","t","a","t","u","s">>, <<"v","a","r","c","h","a","r","(","2","0",")">>),
                   Column(<<"c","r","e","a","t","e","d">>, <<"d","a","t","e">>) >>],
      [name |-> T_users,
       rows |-> << Column(<<"n","a","m","e">>, <<"v","a","r","c","h","a","r","(","2","0",")">>),
                   Column(<<"a","g","e">>, <<"i","n","t">>) >>],
      [name |-> T_events,
       rows |-> << Column(<<"a","t">>, <<"D","A","T","E","T","I","M","E">>) >>] }

\* the databases of the model: up to MaxTables distinct tables, in listing order
Databases ==
    { d \in UNION { [1..n -> TableCatalog] : n \in 0..MaxTables } :
        \A i, j \in 1..Len(d) : i # j => d[i].name # d[j].name }

\* a fault of the driver during one invocation: its at-th statement fails,
\* in cursor.execute or in cursor.fetchall; at = 0 is no fault
NoFault == [at |-> 0, in |-> "none"]
Faults ==
    {NoFault} \cup { [at |-> k, in |-> w] : k \in 1..(MaxTables + 1), w \in {"execute", "fetch"} }

\* Python values: a record [kind, s, n] is a str s, an int n or None
PyStrVal(text) == [kind |-> "str", s |-> text, n |-> 0]
PyIntVal(n) == [kind |-> "int", s |-> <<>>, n |-> n]
PyNoneVal == [kind |-> "none", s |-> <<>>, n |-> 0]

\* the values the driver builds for DATE, DATETIME and DECIMAL columns:
\* datetime.date, datetime.datetime (microsecond 0) and decimal.Decimal
PyDateVal(y, m, d) == [kind |-> "date", y |-> y, m |-> m, d |-> d]
PyDateTimeVal(y, m, d, hh, mm, ss) ==
    [kind |-> "datetime", y |-> y, m |-> m, d |-> d, hh |-> hh, mm |-> mm, ss |-> ss]
PyDecimalVal(text) == [kind |-> "Decimal", s |-> text]

\* rows the driver may hand back for a caller's statement: each row maps
\* column names to values
RowSets ==
    { <<>>,
      <<[id |-> PyIntVal(1), status |-> PyStrVal(<<"p","a","i","d">>), created |-> PyDateVal(2024, 1, 2)],
        [id |-> PyIntVal(2), status |-> PyNoneVal, created |-> PyDateVal(2023, 11, 30)]>>,
      <<[at |-> PyDateTimeVal(2024, 1, 2, 3, 4, 5), total |-> PyDecimalVal(<<"1",".","5","0">>)]>> }

\* what the driver does with a caller's statement
DriverOutcomes ==
    { [kind |-> "rows", rows |-> r] : r \in RowSets }
        \cup { [kind |-> "execute_raises", rows |-> <<>>], [kind |-> "fetch_raises", rows |-> <<>>] }

ShowTables == <<"S","H","O","W"," ","T","A","B","L","E","S">>
DescribeStmt(table_name) == <<"D","E","S","C","R","I","B","E"," ">> \o table_name

\* the metadata statement of analyze_table_relationships (its text shortened)
KeyColumnUsageQuery ==
    <<"\n"," ","S","E","L","E","C","T"," ","T","A","B","L","E","_","N","A","M","E"," ","F","R","O","M"," ","K","E","Y","_","C","O","L","U","M","N","_","U","S","A","G","E","\n">>

HasTable(d, table_name) == \E i \in 1..Len(d) : d[i].name = table_name
TableOf(d, table_name) == d[CHOOSE i \in 1..Len(d) : d[i].name = table_name]

\* what a coroutine of the module hands back: a value or a raised exception,
\* the statements it gave to cursor.execute, the cursors it left open
Returned(v, stmts) == [raised |-> FALSE, exc |-> "", value |-> v, stmts |-> stmts, leaked |-> 0]
Raised(e, stmts, leaked) == [raised |-> TRUE, exc |-> e, value |-> <<>>, stmts |-> stmts, leaked |-> leaked]

----------------------------------------------------------------------------
(* SchemaCatalog.                                                          *)

\* table[0] of a fetched row: a KeyError on a column-name-keyed mapping
RowIndexZeroFails == cursorclass = "DictCursor"

fetch_all_tables(d, fault) ==
    IF fault.at = 1
    THEN Raised("OperationalError", <<ShowTables>>, 1)
    ELSE IF Len(d) > 0 /\ RowIndexZeroFails
    THEN Raised("KeyError", <<ShowTables>>, 0)
    ELSE Returned([i \in 1..Len(d) |-> d[i].name], <<ShowTables>>)

column_info(column) ==
    [name |-> column.Field, type |-> column.Type, null |-> (column.Null = "YES"),
     key |-> column.Key, default |-> column.Default, extra |-> column.Extra]

\* fetch_table_schema as the k-th statement of an invocation
fetch_table_schema(table_name, d, fault, k) ==
    IF fault.at = k
    THEN Raised("OperationalError", <<DescribeStmt(table_name)>>, 0)
    ELSE IF ~HasTable(d, table_name)
    THEN Raised("ProgrammingError", <<DescribeStmt(table_name)>>, 0)
    ELSE LET columns == TableOf(d, table_name).rows
         IN  Returned([table_name |-> table_name,
                       columns |-> [i \in 1..Len(columns) |-> column_info(columns[i])]],
                      <<DescribeStmt(table_name)>>)

----------------------------------------------------------------------------
(* QueryGuard and QueryExecutor.                                           *)

W_SELECT == <<"S","E","L","E","C","T">>
W_SHOW == <<"S","H","O","W">>
W_DESCRIBE == <<"D","E","S","C","R","I","B","E">>
W_EXPLAIN == <<"E","X","P","L","A","I","N">>

\* query.strip().upper().split(): [0] of it is the query type
query_tokens(query) == Split(Upper(Strip(query)))

\* a guard that rejects DROP alone
is_read_only_any(query_type) == query_type # <<"D","R","O","P">>

is_read_only(query_type) == query_type \in {W_SELECT, W_SHOW, W_DESCRIBE, W_EXPLAIN}

PolicyError ==
    [success |-> FALSE,
     error |-> "Only SELECT, SHOW, DESCRIBE, and EXPLAIN queries are allowed for security reasons"]

\* as execute_safe_query, with the stripped text given to the connection
execute_safe_query_stripped(query, drv) ==
    LET tokens == query_tokens(query)
    IN  IF tokens = <<>>
        THEN Returned([success |-> FALSE, error |-> "list index out of range"], <<>>)
        ELSE IF ~is_read_only(tokens[1])
        THEN Returned(PolicyError, <<>>)
        ELSE IF drv.kind = "rows"
        THEN Returned([success |-> TRUE, data |-> drv.rows, row_count |-> Len(drv.rows)],
                      <<Strip(query)>>)
        ELSE Returned([success |-> FALSE, error |-> drv.kind], <<Strip(query)>>)

execute_safe_query(query, drv) ==
    LET tokens == query_tokens(query)
    IN  IF tokens = <<>>
        THEN Returned([success |-> FALSE, error |-> "list index out of range"], <<>>)
        ELSE IF ~is_read_only(tokens[1])
        THEN Returned(PolicyError, <<>>)
        ELSE IF drv.kind = "rows"
        THEN Returned([success |-> TRUE, data |-> drv.rows, row_count |-> Len(drv.rows)], <<query>>)
        ELSE Returned([success |-> FALSE, error |-> drv.kind], <<query>>)

----------------------------------------------------------------------------
(* QuerySynthesizer.                                                       *)

K_count == <<"c","o","u","n","t">>
K_all == <<"a","l","l">>
K_select == <<"s","e","l","e","c","t">>
K_average == <<"a","v","e","r","a","g","e">>
K_avg == <<"a","v","g">>
K_max == <<"m","a","x">>
K_maximum == <<"m","a","x","i","m","u","m">>
K_min == <<"m","i","n">>
K_minimum == <<"m","i","n","i","m","u","m">>
K_group_by == <<"g","r","o","u","p"," ","b","y">>
K_grouped_by == <<"g","r","o","u","p","e","d"," ","b","y">>

\* the declared-type fragments that qualify a column
NumericTypes == { <<"i","n","t">>, <<"d","e","c","i","m","a","l">>, <<"f","l","o","a","t">>, <<"d","o","u","b","l","e">> }
OrderedTypes == NumericTypes \cup { <<"d","a","t","e">>, <<"t","i","m","e">> }
TextTypes == { <<"v","a","r","c","h","a","r">>, <<"c","h","a","r">>, <<"t","e","x","t">>, <<"e","n","u","m">> }

Placeholder ==
    <<"-","-"," ","U","n","a","b","l","e"," ","t","o"," ","g","e","n","e","r","a","t","e"," ","q","u","e","r","y"," ","a","u","t","o","m","a","t","i","c","a","l","l","y","."," ","P","l","e","a","s","e"," ","p","r","o","v","i","d","e"," ","m","o","r","e"," ","s","p","e","c","i","f","i","c"," ","r","e","q","u","i","r","e","m","e","n","t","s",".">>

\* set minimum
MinOf(S) == CHOOSE x \in S : \A y \in S : x <= y

\* the column filter without lower-casing the declared type
RECURSIVE typed_columns_case_sensitive(_, _)
typed_columns_case_sensitive(columns, types) ==
    IF columns = <<>> THEN <<>>
    ELSE (IF \E ty \in types : Contains(Head(columns).type, ty)
          THEN <<Head(columns).name>> ELSE <<>>)
         \o typed_columns_case_sensitive(Tail(columns), types)

\* [col["name"] for col in schema["columns"] if any(t in col["type"].lower() for t in types)]
RECURSIVE typed_columns(_, _)
typed_columns(columns, types) ==
    IF columns = <<>> THEN <<>>
    ELSE (IF \E ty \in types : Contains(Lower(Head(columns).type), ty)
          THEN <<Head(columns).name>> ELSE <<>>)
         \o typed_columns(Tail(columns), types)

\* the tables, by position in the snapshot, whose name occurs in the request
matching_tables(request_lower, table_schemas) ==
    { i \in 1..Len(table_schemas) :
        Contains(request_lower, Lower(table_schemas[i].table_name)) }

\* a loop that keeps the last matching table instead of returning at the first
last_table(request_lower, table_schemas) ==
    LET m == matching_tables(request_lower, table_schemas)
    IN  IF m = {} THEN 0 ELSE CHOOSE x \in m : \A y \in m : y <= x

\* the for loop of a category that needs a table only
first_table(request_lower, table_schemas) ==
    LET m == matching_tables(request_lower, table_schemas)
    IN  IF m = {} THEN 0 ELSE MinOf(m)

\* the for loop of a category that needs a table and a column of some types
first_table_with(request_lower, table_schemas, types) ==
    LET m == { i \in matching_tables(request_lower, table_schemas) :
                 typed_columns(table_schemas[i].columns, types) # <<>> }
    IN  IF m = {} THEN 0 ELSE MinOf(m)

\* the count query without its column alias
count_query_no_alias(table_name) == <<"S","E","L","E","C","T"," ","C","O","U","N","T","(","*",")"," ","F","R","O","M"," ">> \o table_name

count_query(table_name) == <<"S","E","L","E","C","T"," ","C","O","U","N","T","(","*",")"," ","a","s"," ","t","o","t","a","l","_","c","o","u","n","t"," ","F","R","O","M"," ">> \o table_name
\* the select-all query written as a TABLE statement
all_query_table_statement(table_name) == <<"T","A","B","L","E"," ">> \o table_name \o <<" ","L","I","M","I","T"," ","1","0">>

all_query(table_name) == <<"S","E","L","E","C","T"," ","*"," ","F","R","O","M"," ">> \o table_name \o <<" ","L","I","M","I","T"," ","1","0">>
aggregate_query(fn, alias, column, table_name) ==
    <<"S","E","L","E","C","T"," ">> \o fn \o <<"(">> \o column \o <<")"," ","a","s"," ">> \o alias \o <<"_">> \o column
        \o <<" ","F","R","O","M"," ">> \o table_name
group_query(column, table_name) ==
    <<"S","E","L","E","C","T"," ">> \o column \o <<","," ","C","O","U","N","T","(","*",")"," ","a","s"," ","c","o","u","n","t"," ","F","R","O","M"," ">> \o table_name \o <<" ","G","R","O","U","P"," ","B","Y"," ">> \o column

\* the body of one aggregate category: its query, or the placeholder when its
\* loop ends without a return
aggregate_category(request_lower, table_schemas, types, fn, alias) ==
    LET i == first_table_with(request_lower, table_schemas, types)
    IN  IF i = 0 THEN Placeholder
        ELSE aggregate_query(fn, alias, typed_columns(table_schemas[i].columns, types)[1],
                             table_schemas[i].table_name)

\* the chain with its first two tests exchanged
category_entered_all_first(request_lower) ==
    IF Contains(request_lower, K_all) \/ Contains(request_lower, K_select) THEN 2
    ELSE IF Contains(request_lower, K_count) THEN 1
    ELSE IF Contains(request_lower, K_average) \/ Contains(request_lower, K_avg) THEN 3
    ELSE IF Contains(request_lower, K_max) \/ Contains(request_lower, K_maximum) THEN 4
    ELSE IF Contains(request_lower, K_min) \/ Contains(request_lower, K_minimum) THEN 5
    ELSE IF Contains(request_lower, K_group_by) \/ Contains(request_lower, K_grouped_by) THEN 6
    ELSE 7

\* the category (1..6) the if/elif chain enters, 7 when no keyword occurs
category_entered(request_lower) ==
    IF Contains(request_lower, K_count) THEN 1
    ELSE IF Contains(request_lower, K_all) \/ Contains(request_lower, K_select) THEN 2
    ELSE IF Contains(request_lower, K_average) \/ Contains(request_lower, K_avg) THEN 3
    ELSE IF Contains(request_lower, K_max) \/ Contains(request_lower, K_maximum) THEN 4
    ELSE IF Contains(request_lower, K_min) \/ Contains(request_lower, K_minimum) THEN 5
    ELSE IF Contains(request_lower, K_group_by) \/ Contains(request_lower, K_grouped_by) THEN 6
    ELSE 7

\* what the body of category c returns for the request
category_body(c, request_lower, table_schemas) ==
    CASE c = 1 ->
           LET i == first_table(request_lower, table_schemas)
           IN  IF i = 0 THEN Placeholder ELSE count_query(table_schemas[i].table_name)
      [] c = 2 ->
           LET i == first_table(request_lower, table_schemas)
           IN  IF i = 0 THEN Placeholder ELSE all_query(table_schemas[i].table_name)
      [] c = 3 -> aggregate_category(request_lower, table_schemas, NumericTypes,
                                     <<"A","V","G">>, K_average)
      [] c = 4 -> aggregate_category(request_lower, table_schemas, OrderedTypes,
                                     <<"M","A","X">>, K_max)
      [] c = 5 -> aggregate_category(request_lower, table_schemas, OrderedTypes,
                                     <<"M","I","N">>, K_min)
      [] c = 6 ->
           LET i == first_table_with(request_lower, table_schemas, TextTypes)
           IN  IF i = 0 THEN Placeholder
               ELSE group_query(typed_columns(table_schemas[i].columns, TextTypes)[1],
                                table_schemas[i].table_name)
      [] OTHER -> Placeholder

\* the keywords of category c
category_keywords(c) ==
    CASE c = 1 -> {K_count}
      [] c = 2 -> {K_all, K_select}
      [] c = 3 -> {K_average, K_avg}
      [] c = 4 -> {K_max, K_maximum}
      [] c = 5 -> {K_min, K_minimum}
      [] c = 6 -> {K_group_by, K_grouped_by}
      [] OTHER -> {}

\* a synthesizer of independent ifs: a category whose loop ends without a
\* return is followed by the next category whose keyword occurs
generate_sql_query_fallthrough(user_request, table_schemas) ==
    LET user_request_lower == Lower(user_request)
        yielding == { c \in 1..6 :
                        /\ \E k \in category_keywords(c) : Contains(user_request_lower, k)
                        /\ category_body(c, user_request_lower, table_schemas) # Placeholder }
    IN  IF yielding = {} THEN Placeholder
        ELSE category_body(MinOf(yielding), user_request_lower, table_schemas)

generate_sql_query(user_request, table_schemas) ==
    LET user_request_lower == Lower(user_request)
    IN  category_body(category_entered(user_request_lower), user_request_lower, table_schemas)

----------------------------------------------------------------------------
(* QueryBuilder.                                                           *)
(* An optional argument is <<>> (None) or <<v>>.  A Python value is a      *)
(* record [kind, s, n]: a str s, an int n, or None.  A dict is the         *)
(* sequence of its items, in insertion order.                              *)

None == <<>>
Some(v) == <<v>>

\* str(value), as an f-string formats it
PyStr(value) ==
    CASE value.kind = "str" -> value.s
      [] value.kind = "int" -> IntStr(value.n)
      [] OTHER -> <<"N","o","n","e">>

\* a where condition: a bare value, or a dict with optional 'operator' and 'value'
ScalarCond(value) == [kind |-> "scalar", operator |-> None, value |-> value]
DictCond(operator, value) == [kind |-> "dict", operator |-> operator, value |-> value]

\* quoting that replaces the single quotes inside the text
Quoted_sanitised(text) ==
    <<"'">> \o [i \in 1..Len(text) |-> IF text[i] = "'" THEN "_" ELSE text[i]] \o <<"'">>

\* f"'{value}'"
Quoted(text) == <<"'">> \o text \o <<"'">>

\* the else branch: f"{column} = '{condition}'"
render_scalar(column, condition) ==
    column \o <<" ","="," ">> \o Quoted(PyStr(condition.value))

\* the isinstance(condition, dict) branch
render_dict(column, condition) ==
    LET operator == IF condition.operator = None THEN <<"=">> ELSE condition.operator[1]
        value == condition.value
    IN  column \o <<" ">> \o operator \o <<" ">>
            \o (IF value.kind = "str" THEN Quoted(value.s) ELSE PyStr(value))

render_condition(item) ==
    IF item.condition.kind = "dict"
    THEN render_dict(item.column, item.condition)
    ELSE render_scalar(item.column, item.condition)

where_clause_of(where_conditions) ==
    IF where_conditions = None \/ where_conditions[1] = <<>> THEN <<>>
    ELSE LET items == where_conditions[1]
             conditions == [i \in 1..Len(items) |-> render_condition(items[i])]
         IN  <<"W","H","E","R","E"," ">> \o Join(<<" ","A","N","D"," ">>, conditions)

\* every clause, the empty ones too
all_parts(parts) == parts

\* [part for part in query_parts if part]
RECURSIVE non_empty_parts(_)
non_empty_parts(parts) ==
    IF parts = <<>> THEN <<>>
    ELSE (IF Head(parts) # <<>> THEN <<Head(parts)>> ELSE <<>>) \o non_empty_parts(Tail(parts))

build_advanced_query(table_name, columns, where_conditions, order_by, limit, group_by) ==
    LET select_clause ==
            IF columns # None /\ columns[1] # <<>>
            THEN <<"S","E","L","E","C","T"," ">> \o Join(<<",", " ">>, columns[1])
            ELSE <<"S","E","L","E","C","T"," ","*">>
        from_clause == <<"F","R","O","M"," ">> \o table_name
        where_clause == where_clause_of(where_conditions)
        group_clause ==
            IF group_by # None /\ group_by[1] # <<>> THEN <<"G","R","O","U","P"," ","B","Y"," ">> \o group_by[1] ELSE <<>>
        order_clause ==
            IF order_by # None /\ order_by[1] # <<>> THEN <<"O","R","D","E","R"," ","B","Y"," ">> \o order_by[1] ELSE <<>>
        limit_clause ==
            IF limit # None /\ limit[1] # 0 THEN <<"L","I","M","I","T"," ">> \o IntStr(limit[1]) ELSE <<>>
        query_parts ==
            <<select_clause, from_clause, where_clause, group_clause, order_clause, limit_clause>>
    IN  Join(<<" ">>, non_empty_parts(query_parts))

----------------------------------------------------------------------------
(* QueryLinter.                                                            *)

L_SELECT_STAR == <<"S","E","L","E","C","T"," ","*">>
L_LIMIT == <<"L","I","M","I","T">>
L_WHERE == <<"W","H","E","R","E">>
L_ORDER_BY == <<"O","R","D","E","R"," ","B","Y">>

MsgSelectStar == "Consider selecting specific columns instead of SELECT * for better performance"
MsgLimit == "Consider adding LIMIT clause to prevent accidentally fetching too many rows"
MsgWhere == "Consider adding WHERE clause to filter results if needed"
MsgOrderBy == "Consider adding ORDER BY clause for consistent result ordering"
MsgInjection == "Be cautious of potential SQL injection - use parameterized queries when possible"
MsgLooksGood == "Query looks good! No obvious improvements needed."

\* the texts whose presence is taken for an injection risk
RiskyTexts == { <<"'">>, <<"\"">>, <<";">>, <<"-","-">> }

\* suggestions.append(msg) under a condition
AppendIf(cond, msg) == IF cond THEN <<msg>> ELSE <<>>

\* the checks as one if/elif chain: the first that applies is the only one reported
suggestions_of_first_only(sql_query) ==
    LET query_upper == Strip(Upper(sql_query))
    IN  IF Contains(query_upper, L_SELECT_STAR) THEN <<MsgSelectStar>>
        ELSE IF ~Contains(query_upper, L_LIMIT) /\ Contains(query_upper, W_SELECT) THEN <<MsgLimit>>
        ELSE IF ~Contains(query_upper, L_WHERE) /\ Contains(query_upper, W_SELECT) THEN <<MsgWhere>>
        ELSE IF ~Contains(query_upper, L_ORDER_BY) /\ Contains(query_upper, W_SELECT) THEN <<MsgOrderBy>>
        ELSE IF \E risky \in RiskyTexts : Contains(sql_query, risky) THEN <<MsgInjection>>
        ELSE <<>>

\* the suggestions list as built by the five checks, before the fallback
suggestions_of(sql_query) ==
    LET query_upper == Strip(Upper(sql_query))
    IN  AppendIf(Contains(query_upper, L_SELECT_STAR), MsgSelectStar)
        \o AppendIf(~Contains(query_upper, L_LIMIT) /\ Contains(query_upper, W_SELECT), MsgLimit)
        \o AppendIf(~Contains(query_upper, L_WHERE) /\ Contains(query_upper, W_SELECT), MsgWhere)
        \o AppendIf(~Contains(query_upper, L_ORDER_BY) /\ Contains(query_upper, W_SELECT), MsgOrderBy)
        \o AppendIf(\E risky \in RiskyTexts : Contains(sql_query, risky), MsgInjection)

\* the reply of the tool suggest_query_improvements
suggest_query_improvements(sql_query) ==
    LET suggestions == suggestions_of(sql_query)
    IN  [original_query |-> sql_query,
         suggestions |-> IF suggestions # <<>> THEN suggestions ELSE <<MsgLooksGood>>,
         note |-> "These are basic suggestions. Always test queries carefully."]

----------------------------------------------------------------------------
(* The exposed tools.  Each operator is one tool's coroutine, run to its   *)
(* end: its reply or the exception it lets out, the statements it gave to  *)
(* the connection and the cursors it left open.                            *)

ErrorReply(msg, detail) == [error |-> msg, detail |-> detail]
FailureReply(msg, detail) == [error |-> msg, detail |-> detail, success |-> FALSE]

get_table_list(d, fault) == fetch_all_tables(d, fault)

get_table_schema(table_name, d, fault) ==
    LET r == fetch_table_schema(table_name, d, fault, 1)
    IN  IF r.raised
        THEN [r EXCEPT !.raised = FALSE, !.exc = "",
                       !.value = ErrorReply("Failed to get schema for table", r.exc)]
        ELSE r

\* the loop over table_names: one fetch_table_schema each, from statement k on,
\* until one raises
RECURSIVE describe_each(_, _, _, _)
describe_each(table_names, d, fault, k) ==
    IF table_names = <<>> THEN Returned(<<>>, <<>>)
    ELSE LET r == fetch_table_schema(Head(table_names), d, fault, k)
         IN  IF r.raised THEN r
             ELSE LET rest == describe_each(Tail(table_names), d, fault, k + 1)
                  IN  [rest EXCEPT !.value = <<r.value>> \o rest.value,
                                   !.stmts = r.stmts \o rest.stmts]

\* fetch_all_tables, then fetch_table_schema per listed table: the snapshot
schema_snapshot(d, fault) ==
    LET listed == fetch_all_tables(d, fault)
    IN  IF listed.raised THEN listed
        ELSE LET each == describe_each(listed.value, d, fault, 2)
             IN  [each EXCEPT !.stmts = listed.stmts \o each.stmts]

get_all_table_schemas(d, fault) ==
    LET r == schema_snapshot(d, fault)
    IN  IF r.raised
        THEN [r EXCEPT !.raised = FALSE, !.exc = "",
                       !.value = ErrorReply("Failed to get all schemas", r.exc)]
        ELSE r

create_sql_query(user_request, include_schemas, d, fault) ==
    LET r == schema_snapshot(d, fault)
    IN  IF r.raised
        THEN [r EXCEPT !.raised = FALSE, !.exc = "",
                       !.value = ErrorReply("Failed to create SQL query", r.exc)]
        ELSE [r EXCEPT !.value =
                 [user_request |-> user_request,
                  generated_query |-> generate_sql_query(user_request, r.value),
                  available_tables |-> IF include_schemas THEN Some(r.value) ELSE None]]

\* str(n) with zeros in front up to width digits ("%04d", "%02d")
ZeroPad(n, width) ==
    LET digits == NatStr(n)
    IN  IF Len(digits) >= width THEN digits
        ELSE [i \in 1..(width - Len(digits)) |-> "0"] \o digits

DateText(v) == ZeroPad(v.y, 4) \o <<"-">> \o ZeroPad(v.m, 2) \o <<"-">> \o ZeroPad(v.d, 2)
TimeText(v) == ZeroPad(v.hh, 2) \o <<":">> \o ZeroPad(v.mm, 2) \o <<":">> \o ZeroPad(v.ss, 2)

\* str(obj) of the values json cannot encode: date.__str__ is isoformat(),
\* datetime.__str__ is isoformat(sep=' '), Decimal.__str__ its digits
default_str(obj) ==
    CASE obj.kind = "date" -> DateText(obj)
      [] obj.kind = "datetime" -> DateText(obj) \o <<" ">> \o TimeText(obj)
      [] OTHER -> obj.s

\* what json.dumps(..., default=str) writes for a value: str, int and None
\* natively, anything else as the string default_str gives
json_dumps_value(obj) ==
    IF obj.kind \in {"str", "int", "none"} THEN obj ELSE PyStrVal(default_str(obj))

json_dumps_rows(rows) ==
    [i \in 1..Len(rows) |-> [c \in DOMAIN rows[i] |-> json_dumps_value(rows[i][c])]]

execute_query(sql_query, drv) ==
    LET r == execute_safe_query(sql_query, drv)
    IN  IF r.raised
        THEN [r EXCEPT !.raised = FALSE, !.exc = "",
                       !.value = FailureReply("Failed to execute query", r.exc)]
        ELSE IF r.value.success
        THEN [r EXCEPT !.value.data = json_dumps_rows(r.value.data)]
        ELSE r

\* the most rows get_sample_data asks for
SampleLimitCap == 100

\* a min that keeps its first argument whatever the second is
PyMin_uncapped(a, b) == a

\* min(a, b)
PyMin(a, b) == IF a <= b THEN a ELSE b

sample_query(table_name, limit) ==
    <<"S","E","L","E","C","T"," ","*"," ","F","R","O","M"," ">> \o table_name \o <<" ","L","I","M","I","T"," ">> \o IntStr(PyMin(limit, SampleLimitCap))

get_sample_data(table_name, limit, drv) ==
    LET r == execute_safe_query(sample_query(table_name, limit), drv)
    IN  IF r.raised
        THEN [r EXCEPT !.raised = FALSE, !.exc = "",
                       !.value = FailureReply("Failed to get sample data", r.exc)]
        ELSE IF r.value.success
        THEN [r EXCEPT !.value = [table_name |-> table_name, sample_data |-> json_dumps_rows(r.value.data),
                                  row_count |-> r.value.row_count,
                                  shown |-> PyMin(limit, SampleLimitCap)]]
        ELSE r

analyze_table_relationships(fault, relationships) ==
    IF fault.at = 1
    THEN [raised |-> FALSE, exc |-> "",
          value |-> ErrorReply("Failed to analyze relationships", "OperationalError"),
          stmts |-> <<KeyColumnUsageQuery>>, leaked |-> 1]
    ELSE Returned([foreign_keys |-> relationships, relationship_count |-> Len(relationships)],
                  <<KeyColumnUsageQuery>>)


\* str.split(c) on a one-character separator: every piece, empty ones too
RECURSIVE SplitOn(_, _)
SplitOn(s, c) ==
    IF \E i \in 1..Len(s) : s[i] = c
    THEN LET i == MinOf({ j \in 1..Len(s) : s[j] = c })
         IN  <<SubSeq(s, 1, i - 1)>> \o SplitOn(SubSeq(s, i + 1, Len(s)), c)
    ELSE <<s>>

C_status == <<"s","t","a","t","u","s">>
C_age == <<"a","g","e">>
C_name == <<"n","a","m","e">>

Item(column, condition) == [column |-> column, condition |-> condition]

JsonValue(kind, truthy, items) == [kind |-> kind, truthy |-> truthy, items |-> items]

\* json.loads on the where_conditions texts of the model: the text, and the
\* value it decodes to ("invalid": json.JSONDecodeError)
JsonTexts ==
    << [text |-> <<"{","\"","s","t","a","t","u","s","\"",":"," ","\"","p","a","i","d","\"","}">>,
        parsed |-> JsonValue("object", TRUE, <<Item(C_status, ScalarCond(PyStrVal(<<"p","a","i","d">>)))>>)],
       [text |-> <<"{","\"","a","g","e","\"",":"," ","5","}">>,
        parsed |-> JsonValue("object", TRUE, <<Item(C_age, ScalarCond(PyIntVal(5)))>>)],
       [text |-> <<"{","\"","a","g","e","\"",":"," ","{","\"","o","p","e","r","a","t","o","r","\"",":"," ","\"",">","\"",","," ","\"","v","a","l","u","e","\"",":"," ","2","5","}","}">>,
        parsed |-> JsonValue("object", TRUE, <<Item(C_age, DictCond(Some(<<">">>), PyIntVal(25)))>>)],
       [text |-> <<"{","}">>, parsed |-> JsonValue("object", FALSE, <<>>)],
       [text |-> <<"[","1","]">>, parsed |-> JsonValue("array", TRUE, <<>>)],
       [text |-> <<"[","]">>, parsed |-> JsonValue("array", FALSE, <<>>)],
       [text |-> <<"\"","x","\"">>, parsed |-> JsonValue("string", TRUE, <<>>)],
       [text |-> <<"5">>, parsed |-> JsonValue("number", TRUE, <<>>)],
       [text |-> <<"0">>, parsed |-> JsonValue("number", FALSE, <<>>)],
       [text |-> <<"n","u","l","l">>, parsed |-> JsonValue("null", FALSE, <<>>)],
       [text |-> <<"{","b","a","d">>, parsed |-> JsonValue("invalid", FALSE, <<>>)],
       [text |-> <<"a","g","e"," ",">"," ","5">>, parsed |-> JsonValue("invalid", FALSE, <<>>)] >>

json_loads(text) ==
    JsonTexts[CHOOSE i \in 1..Len(JsonTexts) : JsonTexts[i].text = text].parsed

build_custom_query(table_name, columns, where_conditions, order_by, limit, group_by) ==
    LET column_list ==
            IF columns # None /\ columns[1] # <<>>
            THEN LET pieces == SplitOn(columns[1], ",")
                 IN  Some([i \in 1..Len(pieces) |-> Strip(pieces[i])])
            ELSE None
        given == where_conditions # None /\ where_conditions[1] # <<>>
        parsed == IF given THEN json_loads(where_conditions[1]) ELSE JsonValue("null", FALSE, <<>>)
    IN  IF given /\ parsed.kind = "invalid"
        THEN Returned(ErrorReply("Invalid JSON format for where_conditions", "JSONDecodeError"), <<>>)
        ELSE IF parsed.truthy /\ parsed.kind # "object"
        THEN Returned(ErrorReply("Failed to build custom query", "AttributeError"), <<>>)
        ELSE Returned(
                 [generated_query |->
                      build_advanced_query(table_name, column_list,
                                           IF parsed.kind = "object" THEN Some(parsed.items) ELSE None,
                                           order_by, limit, group_by),
                  columns |-> column_list], <<>>)

----------------------------------------------------------------------------
(* The tool server: one invocation at a time on the event loop, its reply  *)
(* handed back before the next.                                            *)

NoCall == [op |-> "none"]
NoReply == [kind |-> "none", exc |-> "", value |-> <<>>]

\* the table names callers ask about
TableArgs == { T_orders, T_users, T_missing }

\* the raw query texts callers submit: a leading keyword in some spelling,
\* white space around it, and what follows it
QueryKeywords ==
    { W_SELECT, <<"s","e","l","e","c","t">>, <<"S","h","o","w">>, W_DESCRIBE, <<"e","x","p","l","a","i","n">>, <<"D","R","O","P">>, <<"d","e","l","e","t","e">>, <<"I","N","S","E","R","T">>,
      <<"S","E","L","E","C","T","S">>, <<"-","-">> }
QueryLeads == { <<>>, <<" ">>, <<"\n", "\t">> }
QueryRests == { <<>>, <<" ","*"," ","F","R","O","M"," ","t">>, <<" ","1",";"," ","D","R","O","P"," ","T","A","B","L","E"," ","t">>, <<"\t">> \o <<"T","A","B","L","E"," ","t">>, <<"\n">> }
Queries ==
    { lead \o kw \o rest : lead \in QueryLeads, kw \in QueryKeywords, rest \in QueryRests }
        \cup { <<>>, <<" ">>, <<"\t", "\n">>, <<"D","R","O","P"," ","T","A","B","L","E"," ","t">> }

RequestArgs == { <<"c","o","u","n","t"," ","o","r","d","e","r","s">>, <<"h","o","w"," ","m","a","n","y"," ","r","o","w","s"," ","i","n"," ","o","r","d","e","r","s">>, <<"a","v","e","r","a","g","e"," ","o","f"," ","u","s","e","r","s">>, <<"h","e","l","l","o">> }
LimitArgs == { 0 - 1, 0, 5, 100, 101 }
ColumnsArgs == { None, Some(<<"i","d",","," ","n","a","m","e">>), Some(<<",">>) }
WhereArgs == { None, Some(<<>>) } \cup { Some(JsonTexts[i].text) : i \in 1..Len(JsonTexts) }
LintArgs == { <<"S","E","L","E","C","T"," ","*"," ","F","R","O","M"," ","t">>, <<"S","E","L","E","C","T"," ","i","d"," ","F","R","O","M"," ","t"," ","W","H","E","R","E"," ","i","d","=","1"," ","O","R","D","E","R"," ","B","Y"," ","i","d"," ","L","I","M","I","T"," ","5">>, <<"S","H","O","W"," ","T","A","B","L","E","S",";">> }
RelationshipSets == { <<>>, <<[TABLE_NAME |-> "orders", REFERENCED_TABLE_NAME |-> "users"]>> }

Init ==
    /\ db \in Databases
    /\ call = NoCall
    /\ ret = NoReply
    /\ executed = <<>>
    /\ open_cursors = 0
    /\ tasks = <<>>

\* the server is free to run an invocation whose outcome is r
CanRun(r) ==
    /\ ret.kind = "none"
    /\ open_cursors + r.leaked <= MaxOpenCursors

\* what the caller gets from an invocation whose outcome is r
ReplyOf(r) ==
    IF r.raised THEN [kind |-> "raise", exc |-> r.exc, value |-> <<>>]
                ELSE [kind |-> "return", exc |-> "", value |-> r.value]

Tool_get_table_list ==
    \E fault \in Faults :
        LET r == get_table_list(db, fault)
        IN  /\ CanRun(r)
            /\ call' = [op |-> "get_table_list", fault |-> fault]
            /\ ret' = ReplyOf(r)
            /\ executed' = r.stmts
            /\ open_cursors' = open_cursors + r.leaked
            /\ UNCHANGED <<db, tasks>>

Tool_get_table_schema ==
    \E table_name \in TableArgs, fault \in Faults :
        LET r == get_table_schema(table_name, db, fault)
        IN  /\ CanRun(r)
            /\ call' = [op |-> "get_table_schema", table_name |-> table_name]
            /\ ret' = ReplyOf(r)
            /\ executed' = r.stmts
            /\ open_cursors' = open_cursors + r.leaked
            /\ UNCHANGED <<db, tasks>>

Tool_get_all_table_schemas ==
    \E fault \in Faults :
        LET r == get_all_table_schemas(db, fault)
        IN  /\ CanRun(r)
            /\ call' = [op |-> "get_all_table_schemas", fault |-> fault]
            /\ ret' = ReplyOf(r)
            /\ executed' = r.stmts
            /\ open_cursors' = open_cursors + r.leaked
            /\ UNCHANGED <<db, tasks>>

Tool_create_sql_query ==
    \E user_request \in RequestArgs, include_schemas \in BOOLEAN, fault \in Faults :
        LET r == create_sql_query(user_request, include_schemas, db, fault)
        IN  /\ CanRun(r)
            /\ call' = [op |-> "create_sql_query", user_request |-> user_request]
            /\ ret' = ReplyOf(r)
            /\ executed' = r.stmts
            /\ open_cursors' = open_cursors + r.leaked
            /\ UNCHANGED <<db, tasks>>

Tool_execute_query ==
    \E sql_query \in Queries, drv \in DriverOutcomes :
        LET r == execute_query(sql_query, drv)
        IN  /\ CanRun(r)
            /\ call' = [op |-> "execute_query", sql_query |-> sql_query, drv |-> drv.kind,
                        rows |-> drv.rows]
            /\ ret' = ReplyOf(r)
            /\ executed' = r.stmts
            /\ open_cursors' = open_cursors + r.leaked
            /\ UNCHANGED <<db, tasks>>

Tool_get_sample_data ==
    \E table_name \in TableArgs, limit \in LimitArgs, drv \in DriverOutcomes :
        LET r == get_sample_data(table_name, limit, drv)
        IN  /\ CanRun(r)
            /\ call' = [op |-> "get_sample_data", table_name |-> table_name, limit |-> limit,
                        drv |-> drv.kind, rows |-> drv.rows]
            /\ ret' = ReplyOf(r)
            /\ executed' = r.stmts
            /\ open_cursors' = open_cursors + r.leaked
            /\ UNCHANGED <<db, tasks>>

Tool_build_custom_query ==
    \E columns \in ColumnsArgs, where_conditions \in WhereArgs, limit \in {None, Some(5)} :
        LET r == build_custom_query(T_orders, columns, where_conditions, None, limit, None)
        IN  /\ CanRun(r)
            /\ call' = [op |-> "build_custom_query", columns |-> columns,
                        where_conditions |-> where_conditions, limit |-> limit]
            /\ ret' = ReplyOf(r)
            /\ executed' = r.stmts
            /\ open_cursors' = open_cursors + r.leaked
            /\ UNCHANGED <<db, tasks>>

Tool_analyze_table_relationships ==
    \E fault \in Faults, relationships \in RelationshipSets :
        LET r == analyze_table_relationships(fault, relationships)
        IN  /\ CanRun(r)
            /\ call' = [op |-> "analyze_table_relationships"]
            /\ ret' = ReplyOf(r)
            /\ executed' = r.stmts
            /\ open_cursors' = open_cursors + r.leaked
            /\ UNCHANGED <<db, tasks>>

Tool_suggest_query_improvements ==
    \E sql_query \in LintArgs :
        LET r == Returned(suggest_query_improvements(sql_query), <<>>)
        IN  /\ CanRun(r)
            /\ call' = [op |-> "suggest_query_improvements", sql_query |-> sql_query]
            /\ ret' = ReplyOf(r)
            /\ executed' = r.stmts
            /\ open_cursors' = open_cursors + r.leaked
            /\ UNCHANGED <<db, tasks>>

\* the reply (or the exception) reaches the caller; the server takes the next request
Respond ==
    /\ ret.kind # "none"
    /\ call' = NoCall
    /\ ret' = NoReply
    /\ executed' = <<>>
    /\ UNCHANGED <<db, open_cursors, tasks>>

Next ==
    \/ Tool_get_table_list
    \/ Tool_get_table_schema
    \/ Tool_get_all_table_schemas
    \/ Tool_create_sql_query
    \/ Tool_execute_query
    \/ Tool_get_sample_data
    \/ Tool_build_custom_query
    \/ Tool_analyze_table_relationships
    \/ Tool_suggest_query_improvements
    \/ Respond

Spec == Init /\ [][Next]_vars

----------------------------------------------------------------------------
(* Properties of the guarded executor and of the tool boundary.            *)

\* the leading keyword of a text: its first white-space-delimited token,
\* upper-cased; empty for an empty or white-space-only text
LeadingKeyword(text) ==
    LET tokens == Split(text)
    IN  IF tokens = <<>> THEN <<>> ELSE Upper(tokens[1])

ReadOnlyWhitelist == { W_SELECT, W_SHOW, W_DESCRIBE, W_EXPLAIN }

\* C1: a query text whose leading keyword is not SELECT, SHOW, DESCRIBE or
\* EXPLAIN gets a reply with success = false, and no statement is executed
\* on the connection during that call.
C1_RejectedTextNeverExecutes ==
    (call.op = "execute_query" /\ LeadingKeyword(call.sql_query) \notin ReadOnlyWhitelist)
        => /\ ret.kind = "return"
           /\ ret.value.success = FALSE
           /\ executed = <<>>

C1_Witness ==
    /\ call.op = "execute_query"
    /\ call.sql_query = <<"D","R","O","P"," ","T","A","B","L","E"," ","t">>
    /\ ret.kind = "return"
    /\ ret.value.success = FALSE
    /\ executed = <<>>

\* C2: a query text whose leading keyword is on the whitelist is accepted
\* whatever follows the keyword, and the full text, unmodified, is the one
\* statement given to the connection.
C2_LeadingTokenAloneDecides ==
    (call.op = "execute_query" /\ LeadingKeyword(call.sql_query) \in ReadOnlyWhitelist)
        => /\ executed = <<call.sql_query>>
           /\ ret.kind = "return"
           /\ ret.value # PolicyError
           /\ (call.drv = "rows" => ret.value.success)

C2_Witness ==
    /\ call.op = "execute_query"
    /\ call.sql_query = <<" ","s","e","l","e","c","t"," ","1",";"," ","D","R","O","P"," ","T","A","B","L","E"," ","t">>
    /\ executed = <<call.sql_query>>
    /\ ret.kind = "return"
    /\ ret.value.success

\* C9: after any sequence of calls, no cursor acquired by a finished call is
\* still open.
C9_NoCursorLeftOpen == open_cursors = 0

\* C10: no exposed operation lets an exception out to its caller: every call
\* ends with a reply.
C10_NoExceptionPropagates == ret.kind # "raise"

----------------------------------------------------------------------------
(* The synthesizer on its own: generate_sql_query applied to a request and *)
(* to the snapshot of a database.                                          *)

\* the snapshot create_sql_query builds of database d: one schema per table
SnapshotOf(d) == describe_each([i \in 1..Len(d) |-> d[i].name], d, NoFault, 2).value

\* the phrases requests are made of, and the tables they mention
RequestPhrases ==
    { K_count, <<"A","L","L">>, K_avg, <<"M","a","x","i","m","u","m">>, K_min, K_grouped_by, <<"h","o","w"," ","m","a","n","y"," ","r","o","w","s"," ","i","n">> }
TableMentions ==
    { <<>>, <<T_orders>>, <<<<"U","s","e","r","s">>>>, <<T_events>>, <<T_events, T_orders>> }
\* up to MaxKeywords distinct phrases, in any order
PhraseSeqs ==
    { p \in UNION { [1..n -> RequestPhrases] : n \in 0..MaxKeywords } :
        \A i, j \in 1..Len(p) : i # j => p[i] # p[j] }
SynthRequests ==
    { Join(<<" ">>, phrases \o tables) : phrases \in PhraseSeqs, tables \in TableMentions }

InitSynth ==
    /\ db \in Databases
    /\ \E user_request \in SynthRequests :
          call = [op |-> "generate_sql_query", user_request |-> user_request,
                  table_schemas |-> SnapshotOf(db)]
    /\ ret = NoReply
    /\ executed = <<>>
    /\ open_cursors = 0
    /\ tasks = <<>>

Synthesize ==
    /\ call.op = "generate_sql_query"
    /\ ret.kind = "none"
    /\ ret' = [kind |-> "return", exc |-> "",
               value |-> generate_sql_query(call.user_request, call.table_schemas)]
    /\ UNCHANGED <<db, call, executed, open_cursors, tasks>>

NextSynth == Synthesize

SpecSynth == InitSynth /\ [][NextSynth]_vars

Synthesized == call.op = "generate_sql_query" /\ ret.kind = "return"

\* the categories whose keyword occurs in the request, case-insensitively
OccurringCategories(user_request) ==
    LET request_lower == Lower(user_request)
    IN  { c \in 1..6 : \E k \in category_keywords(c) : Contains(request_lower, k) }

\* the first of them in priority order, 7 when there is none
FirstOccurringCategory(user_request) ==
    LET occurring == OccurringCategories(user_request)
    IN  IF occurring = {} THEN 7 ELSE MinOf(occurring)

\* the categories whose keyword occurs and whose lookup yields a query
YieldingCategories(user_request, table_schemas) ==
    { c \in OccurringCategories(user_request) :
        category_body(c, Lower(user_request), table_schemas) # Placeholder }

HowManyRowsInOrders == <<"h","o","w"," ","m","a","n","y"," ","r","o","w","s"," ","i","n"," ","o","r","d","e","r","s">>
CountOrders == <<"c","o","u","n","t"," ","o","r","d","e","r","s">>
CountFromOrders == <<"S","E","L","E","C","T"," ","C","O","U","N","T","(","*",")"," ","a","s"," ","t","o","t","a","l","_","c","o","u","n","t"," ","F","R","O","M"," ","o","r","d","e","r","s">>

HasSchemaOf(table_schemas, table_name) ==
    \E i \in 1..Len(table_schemas) : table_schemas[i].table_name = table_name

\* C5 as stated: "how many rows in orders", with a snapshot that holds a
\* table orders, yields exactly "SELECT COUNT(*) as total_count FROM orders".
C5_HowManyRowsYieldsCount ==
    (/\ Synthesized
     /\ call.user_request = HowManyRowsInOrders
     /\ HasSchemaOf(call.table_schemas, T_orders))
        => ret.value = CountFromOrders

\* C5 amended: with a snapshot that holds a table orders, "how many rows in
\* orders" holds none of the keywords and yields the placeholder; the count
\* query "SELECT COUNT(*) as total_count FROM orders" is what "count orders"
\* yields.
C5_CountKeywordYieldsCount ==
    (Synthesized /\ HasSchemaOf(call.table_schemas, T_orders))
        => /\ (call.user_request = HowManyRowsInOrders => ret.value = Placeholder)
           /\ (call.user_request = CountOrders => ret.value = CountFromOrders)

C5_Witness ==
    /\ Synthesized
    /\ HasSchemaOf(call.table_schemas, T_orders)
    /\ call.user_request = CountOrders
    /\ ret.value = CountFromOrders

----------------------------------------------------------------------------
(* The builder on its own: build_advanced_query applied to its arguments.  *)

BuildColumns == { None, Some(<<>>), Some(<<<<"i","d">>>>), Some(<<<<"i","d">>, C_name>>) }

\* the conditions where_conditions mappings are made of
ConditionItems ==
    { Item(C_status, ScalarCond(PyStrVal(<<"p","a","i","d">>))),
      Item(C_age, ScalarCond(PyIntVal(5))),
      Item(C_status, DictCond(Some(<<">">>), PyIntVal(5))),
      Item(C_name, DictCond(None, PyStrVal(<<"O","'","B","r","i","e","n">>))),
      Item(C_age, DictCond(Some(<<"<">>), PyStrVal(<<"x">>))) }

\* the mappings: None, or up to MaxConditions conditions on distinct columns
WhereDicts ==
    { None } \cup
    { Some(items) : items \in
        { w \in UNION { [1..n -> ConditionItems] : n \in 0..MaxConditions } :
            \A i, j \in 1..Len(w) : i # j => w[i].column # w[j].column } }

BuildTexts(text) == { None, Some(<<>>), Some(text) }
BuildLimits == { None, Some(0), Some(5) }

InitBuild ==
    /\ db = <<>>
    /\ \E columns \in BuildColumns, where_conditions \in WhereDicts,
          order_by \in BuildTexts(<<"i","d"," ","D","E","S","C">>), limit \in BuildLimits,
          group_by \in BuildTexts(C_status) :
          call = [op |-> "build_advanced_query", table_name |-> T_orders, columns |-> columns,
                  where_conditions |-> where_conditions, order_by |-> order_by,
                  limit |-> limit, group_by |-> group_by]
    /\ ret = NoReply
    /\ executed = <<>>
    /\ open_cursors = 0
    /\ tasks = <<>>

Build ==
    /\ call.op = "build_advanced_query"
    /\ ret.kind = "none"
    /\ ret' = [kind |-> "return", exc |-> "",
               value |-> build_advanced_query(call.table_name, call.columns,
                                              call.where_conditions, call.order_by,
                                              call.limit, call.group_by)]
    /\ UNCHANGED <<db, call, executed, open_cursors, tasks>>

NextBuild == Build

SpecBuild == InitBuild /\ [][NextBuild]_vars

Built == call.op = "build_advanced_query" /\ ret.kind = "return"

\* where needle first starts in hay, 0 when it does not occur
IndexOf(hay, needle) ==
    IF Contains(hay, needle)
    THEN 1 + MinOf({ i \in 0..(Len(hay) - Len(needle)) :
                       SubSeq(hay, i + 1, i + Len(needle)) = needle })
    ELSE 0

\* the clauses in their order of emission, by the text that opens each
ClauseOpeners ==
    << <<"S","E","L","E","C","T"," ">>, <<"F","R","O","M"," ">>, <<"W","H","E","R","E"," ">>, <<"G","R","O","U","P"," ","B","Y"," ">>, <<"O","R","D","E","R"," ","B","Y"," ">>, <<"L","I","M","I","T"," ">> >>

\* an optional argument is given with content
HasContent(arg) == arg # None /\ arg[1] # <<>>

\* clause c has content in the arguments of the call
ClauseGiven(c) ==
    CASE c = 3 -> HasContent(call.where_conditions)
      [] c = 4 -> HasContent(call.group_by)
      [] c = 5 -> HasContent(call.order_by)
      [] c = 6 -> call.limit # None /\ call.limit[1] # 0
      [] OTHER -> TRUE

\* clause c has no content in the arguments of the call
ClauseNotGiven(c) ==
    CASE c = 3 -> ~HasContent(call.where_conditions)
      [] c = 4 -> ~HasContent(call.group_by)
      [] c = 5 -> ~HasContent(call.order_by)
      [] c = 6 -> call.limit = None
      [] OTHER -> FALSE

\* C6: the clauses come in the order SELECT, FROM, WHERE, GROUP BY, ORDER BY,
\* LIMIT, separated by single spaces; a clause with no content is left out,
\* never emitted empty; the output has no doubled, leading or trailing space;
\* with every optional argument absent the output is "SELECT * FROM <table>".
C6_ClausesInOrderNoneEmpty ==
    Built =>
        LET q == ret.value
            at == [c \in 1..6 |-> IndexOf(q, ClauseOpeners[c])]
        IN  /\ at[1] = 1
            /\ \A c \in 1..6 : ClauseGiven(c) => at[c] > 0
            /\ \A c \in 1..6 : ClauseNotGiven(c) => at[c] = 0
            /\ \A c, e \in 1..6 : (c < e /\ at[c] > 0 /\ at[e] > 0) => at[c] < at[e]
            /\ \A c \in 1..6 :
                  at[c] > 0 => /\ at[c] + Len(ClauseOpeners[c]) <= Len(q)
                               /\ q[at[c] + Len(ClauseOpeners[c])] \notin Whitespace
            /\ \A c \in 2..6 : at[c] > 0 => q[at[c] - 1] = " "
            /\ ~Contains(q, <<" ", " ">>)
            /\ q[1] # " " /\ q[Len(q)] # " "
            /\ (/\ call.columns = None /\ call.where_conditions = None /\ call.group_by = None
                /\ call.order_by = None /\ call.limit = None)
                   => q = <<"S","E","L","E","C","T"," ","*"," ","F","R","O","M"," ">> \o call.table_name

C6_Witness ==
    /\ Built
    /\ call.columns = None
    /\ call.where_conditions = None
    /\ call.group_by = Some(C_status)
    /\ call.order_by = Some(<<>>)
    /\ call.limit = Some(5)
    /\ ret.value = <<"S","E","L","E","C","T"," ","*"," ","F","R","O","M"," ","o","r","d","e","r","s"," ","G","R","O","U","P"," ","B","Y"," ","s","t","a","t","u","s"," ","L","I","M","I","T"," ","5">>

\* a condition as "<column> <op> <value>": the operator = when none is given,
\* a string value in single quotes, a numeric value bare
ExpectedCondition(item) ==
    item.column \o <<" ">>
        \o (IF item.condition.operator = None THEN <<"=">> ELSE item.condition.operator[1])
        \o <<" ">>
        \o (IF item.condition.value.kind = "str" THEN Quoted(item.condition.value.s)
            ELSE PyStr(item.condition.value))

\* C7: every condition of the WHERE clause renders as "<column> <op> <value>",
\* string values in single quotes and numeric values unquoted, for a bare
\* scalar (operator = implied) as for an operator/value pair.
C7_StringsQuotedNumbersBare ==
    (Built /\ HasContent(call.where_conditions))
        => LET items == call.where_conditions[1]
           IN  Contains(ret.value,
                        <<"W","H","E","R","E"," ">> \o Join(<<" ","A","N","D"," ">>, [i \in 1..Len(items) |-> ExpectedCondition(items[i])]))

----------------------------------------------------------------------------
(* The linter on its own: suggest_query_improvements applied to a text.    *)

LintHeads ==
    { <<"S","E","L","E","C","T"," ","*"," ","F","R","O","M"," ","t">>, <<"S","E","L","E","C","T"," ","i","d"," ","F","R","O","M"," ","t">>, <<"s","e","l","e","c","t"," ","*"," ","f","r","o","m"," ","t">>, <<"S","e","l","e","c","t"," "," ","*"," ","F","r","o","m"," ","t">>,
      <<"S","H","O","W"," ","T","A","B","L","E","S">>, <<"D","E","L","E","T","E"," ","F","R","O","M"," ","t">>, <<>> }
LintWheres == { <<>>, <<" ","W","H","E","R","E"," ","i","d","=","1">>, <<" ","w","h","e","r","e"," ","n","a","m","e","=","'","x","'">> }
LintOrders == { <<>>, <<" ","O","R","D","E","R"," ","B","Y"," ","i","d">>, <<" ","o","r","d","e","r"," "," ","b","y"," ","i","d">> }
LintLimits == { <<>>, <<" ","L","I","M","I","T"," ","5">> }
LintTails == { <<>>, <<";">>, <<" ","-","-"," ","x">>, <<" ", "\"", "a", "\"">>, <<" ","-"," ","-">>, <<" ">> }
LintTexts ==
    { head \o wh \o ord \o lim \o tail :
        head \in LintHeads, wh \in LintWheres, ord \in LintOrders, lim \in LintLimits,
        tail \in LintTails }

InitLint ==
    /\ db = <<>>
    /\ \E sql_query \in LintTexts :
          call = [op |-> "suggest_query_improvements", sql_query |-> sql_query]
    /\ ret = NoReply
    /\ executed = <<>>
    /\ open_cursors = 0
    /\ tasks = <<>>

Lint ==
    /\ call.op = "suggest_query_improvements"
    /\ ret.kind = "none"
    /\ ret' = [kind |-> "return", exc |-> "", value |-> suggest_query_improvements(call.sql_query)]
    /\ UNCHANGED <<db, call, executed, open_cursors, tasks>>

NextLint == Lint

SpecLint == InitLint /\ [][NextLint]_vars

Linted == call.op = "suggest_query_improvements" /\ ret.kind = "return"

\* the messages of the five checks, in the order of the checks
CheckMessages == << MsgSelectStar, MsgLimit, MsgWhere, MsgOrderBy, MsgInjection >>

\* check i applies to the text (letter case aside)
CheckApplies(i, text) ==
    LET has(word) == Contains(Upper(text), word)
    IN  CASE i = 1 -> has(<<"S","E","L","E","C","T"," ","*">>)
          [] i = 2 -> has(<<"S","E","L","E","C","T">>) /\ ~has(<<"L","I","M","I","T">>)
          [] i = 3 -> has(<<"S","E","L","E","C","T">>) /\ ~has(<<"W","H","E","R","E">>)
          [] i = 4 -> has(<<"S","E","L","E","C","T">>) /\ ~has(<<"O","R","D","E","R"," ","B","Y">>)
          [] OTHER -> \/ Contains(text, <<"'">>) \/ Contains(text, <<"\"">>)
                      \/ Contains(text, <<";">>) \/ Contains(text, <<"-", "-">>)

\* C8: the reply lists the messages of all the checks that apply, in the
\* order SELECT-*, missing LIMIT, missing WHERE, missing ORDER BY, injection
\* risk; it is never empty, and it is the single "looks good" message if and
\* only if none of the five checks applies.
C8_AllApplicableChecksInOrder ==
    Linted =>
        LET out == ret.value.suggestions
            text == call.sql_query
            none == \A i \in 1..5 : ~CheckApplies(i, text)
        IN  /\ Len(out) >= 1
            /\ (out = <<MsgLooksGood>>) <=> none
            /\ ~none =>
                 /\ \A i \in 1..5 : CheckApplies(i, text) <=> (\E j \in 1..Len(out) : out[j] = CheckMessages[i])
                 /\ \A j \in 1..Len(out) : \E i \in 1..5 : out[j] = CheckMessages[i]
                 /\ \A j, k \in 1..Len(out) : \A i, l \in 1..5 :
                        (j < k /\ out[j] = CheckMessages[i] /\ out[k] = CheckMessages[l]) => i < l

C8_Witness ==
    /\ Linted
    /\ call.sql_query = <<"S","E","L","E","C","T"," ","*"," ","F","R","O","M"," ","t",";">>
    /\ ret.value.suggestions = CheckMessages

(***************************************************************************)
(* build_custom_query: where_conditions texts that do not encode an object  *)
(* (sql_tool.py, lines 331-346)                                             *)
(***************************************************************************)

\* a where_conditions argument was supplied and it is not the encoding of a
\* JSON object: undecodable text, or an array, a string, a number or null
NotAJsonObject(where_conditions) ==
    /\ where_conditions # None
    /\ where_conditions[1] # <<>>
    /\ json_loads(where_conditions[1]).kind # "object"

ErrorEnvelope(value) == "error" \in DOMAIN value /\ ~("generated_query" \in DOMAIN value)

\* C11: build_custom_query given where_conditions text that is not a valid
\* encoding of a JSON object (undecodable, or decoding to a list, a string or
\* a number) answers with an error envelope and no generated query, and runs
\* no statement on the database.
C11_NonObjectConditionsRejected ==
    (call.op = "build_custom_query" /\ NotAJsonObject(call.where_conditions)) =>
        /\ ret.kind = "return"
        /\ ErrorEnvelope(ret.value)
        /\ executed = <<>>

(***************************************************************************)
(* The values in the rows a guarded statement returns                      *)
(* (sql_tool.py, lines 71-86, 279 and 299-304)                              *)
(***************************************************************************)

\* datetime.date.isoformat() and datetime.datetime.isoformat(): ISO-8601,
\* with "T" between the date and the time
isoformat(obj) ==
    IF obj.kind = "datetime" THEN DateText(obj) \o <<"T">> \o TimeText(obj) ELSE DateText(obj)

\* the rows in the reply of a tool that ran a statement and got rows back
ReturnedRows ==
    IF call.op = "execute_query" THEN ret.value.data ELSE ret.value.sample_data

RowsReturned ==
    /\ call.op \in {"execute_query", "get_sample_data"}
    /\ ret.kind = "return"
    /\ "success" \in DOMAIN ret.value => ret.value.success

\* C12: in the rows of a successful guarded statement a date or datetime
\* value comes back as its ISO-8601 text, and a value of any other type
\* comes back unchanged.
C12_DatesAsIsoOthersUnchanged ==
    RowsReturned =>
        /\ Len(ReturnedRows) = Len(call.rows)
        /\ \A i \in 1..Len(call.rows) : \A c \in DOMAIN call.rows[i] :
               LET v == call.rows[i][c]
               IN  ReturnedRows[i][c] =
                       IF v.kind \in {"date", "datetime"} THEN PyStrVal(isoformat(v)) ELSE v

(***************************************************************************)
(* get_table_list on the connection as configured (sql_tool.py, lines      *)
(* 13-19 and 23-30)                                                         *)
(***************************************************************************)

TableNames(d) == [i \in 1..Len(d) |-> d[i].name]

\* C13: with the connection configured to return rows as column-name-keyed
\* mappings, get_table_list returns the names of the tables of the database,
\* in the order the database lists them, whatever the database holds.
C13_TableNamesInNativeOrder ==
    (call.op = "get_table_list" /\ call.fault.at # 1) =>
        /\ ret.kind = "return"
        /\ ret.value = TableNames(db)

(***************************************************************************)
(* Invocations on the event loop, step by step.                            *)
(*                                                                         *)
(* Each tool is a coroutine on one single-threaded event loop, and all of  *)
(* them use the one module-level connection.  A task's position (pc) goes  *)
(* pending -> [guard ->] execute -> in_flight -> fetch -> close -> done;   *)
(* its cursor is "none", "open" or "closed".                               *)
(***************************************************************************)

LoopOps == { "get_table_list", "get_table_schema", "execute_query", "analyze_table_relationships" }

LoopQueries == { <<"S","E","L","E","C","T"," ","1">>, <<"D","R","O","P"," ","T","A","B","L","E"," ","t">>, <<" ">> }

Task(op, query) == [op |-> op, query |-> query, pc |-> "pending", cursor |-> "none"]

LoopCalls ==
    { Task(op, <<>>) : op \in LoopOps \ {"execute_query"} }
        \cup { Task("execute_query", query) : query \in LoopQueries }

\* the coroutines that close their cursor in a finally block; the others
\* close it on the normal path only
closes_in_finally(op) == op \in { "get_table_schema", "execute_query" }

\* the statement a task gives to cursor.execute
statement_of(task) ==
    CASE task.op = "get_table_list" -> ShowTables
      [] task.op = "get_table_schema" -> DescribeStmt(T_orders)
      [] task.op = "analyze_table_relationships" -> KeyColumnUsageQuery
      [] OTHER -> task.query

\* the positions at which a coroutine hands control back to the event loop:
\* none, since every await of the module awaits another coroutine of the
\* module and the driver's calls block
suspension_points(op) == {}

mid_call(task) == task.pc \notin { "pending", "done" }

\* the event loop can run a step of task t: no other task is inside its
\* coroutine, unless suspended at one of its suspension points
LoopFree(t) ==
    \A u \in DOMAIN tasks :
        (u # t /\ mid_call(tasks[u])) => tasks[u].pc \in suspension_points(tasks[u].op)

\* where an exception raised by the driver takes a task
after_raise(task) ==
    IF closes_in_finally(task.op) THEN [task EXCEPT !.pc = "close"]
    ELSE [task EXCEPT !.pc = "done"]

InitLoop ==
    /\ db = <<>>
    /\ call = NoCall
    /\ ret = NoReply
    /\ executed = <<>>
    /\ open_cursors = 0
    /\ tasks \in [1..MaxTasks -> LoopCalls]

\* cursor = connection.cursor(): the first statement of every coroutine
\* that uses the connection
Loop_cursor ==
    \E t \in DOMAIN tasks :
        /\ tasks[t].pc = "pending"
        /\ LoopFree(t)
        /\ tasks' = [tasks EXCEPT ![t].cursor = "open",
                                  ![t].pc = IF tasks[t].op = "execute_query" THEN "guard" ELSE "execute"]
        /\ open_cursors' = open_cursors + 1
        /\ UNCHANGED <<db, call, ret, executed>>

\* execute_safe_query, lines 64-69: the leading token against the whitelist
Loop_guard ==
    \E t \in DOMAIN tasks :
        /\ tasks[t].pc = "guard"
        /\ LoopFree(t)
        /\ LET tokens == query_tokens(tasks[t].query)
           IN  tasks' = [tasks EXCEPT ![t].pc =
                             IF tokens # <<>> /\ is_read_only(tokens[1]) THEN "execute" ELSE "close"]
        /\ UNCHANGED <<db, call, ret, executed, open_cursors>>

\* cursor.execute: the statement goes to the server
Loop_execute ==
    \E t \in DOMAIN tasks :
        /\ tasks[t].pc = "execute"
        /\ LoopFree(t)
        /\ tasks' = [tasks EXCEPT ![t].pc = "in_flight"]
        /\ executed' = Append(executed, statement_of(tasks[t]))
        /\ UNCHANGED <<db, call, ret, open_cursors>>

\* cursor.execute returns, or raises
Loop_executed ==
    \E t \in DOMAIN tasks, raises \in BOOLEAN :
        /\ tasks[t].pc = "in_flight"
        /\ LoopFree(t)
        /\ tasks' = [tasks EXCEPT ![t] = IF raises THEN after_raise(tasks[t])
                                         ELSE [tasks[t] EXCEPT !.pc = "fetch"]]
        /\ UNCHANGED <<db, call, ret, executed, open_cursors>>

\* cursor.fetchall returns, or raises
Loop_fetchall ==
    \E t \in DOMAIN tasks, raises \in BOOLEAN :
        /\ tasks[t].pc = "fetch"
        /\ LoopFree(t)
        /\ tasks' = [tasks EXCEPT ![t] = IF raises THEN after_raise(tasks[t])
                                         ELSE [tasks[t] EXCEPT !.pc = "close"]]
        /\ UNCHANGED <<db, call, ret, executed, open_cursors>>

\* cursor.close(), and the coroutine ends
Loop_close ==
    \E t \in DOMAIN tasks :
        /\ tasks[t].pc = "close"
        /\ LoopFree(t)
        /\ tasks' = [tasks EXCEPT ![t].cursor = "closed", ![t].pc = "done"]
        /\ open_cursors' = open_cursors - 1
        /\ UNCHANGED <<db, call, ret, executed>>

NextLoop ==
    \/ Loop_cursor
    \/ Loop_guard
    \/ Loop_execute
    \/ Loop_executed
    \/ Loop_fetchall
    \/ Loop_close

SpecLoop == InitLoop /\ [][NextLoop]_vars

\* the event loop never has two invocations inside their coroutines at once
OneCallAtATime == Cardinality({ t \in DOMAIN tasks : mid_call(tasks[t]) }) <= 1

\* C14: each call completes its cycle of acquiring a cursor, executing,
\* fetching and releasing the cursor before another call begins one: at no
\* time do two calls have a cursor open on the connection, and at no time
\* are two statements in flight.
C14_OneCursorCycleAtATime ==
    /\ Cardinality({ t \in DOMAIN tasks : tasks[t].cursor = "open" }) <= 1
    /\ Cardinality({ t \in DOMAIN tasks : tasks[t].pc = "in_flight" }) <= 1

\* C16: the guarded executor classifies the statement before it touches the
\* connection: a call whose statement the guard rejects never acquires a
\* cursor.
C16_NoCursorForRejectedStatement ==
    \A t \in DOMAIN tasks :
        (/\ tasks[t].op = "execute_query"
         /\ LeadingKeyword(tasks[t].query) # <<>>
         /\ LeadingKeyword(tasks[t].query) \notin ReadOnlyWhitelist)
            => tasks[t].cursor = "none"

(***************************************************************************)
(* get_sample_data: the row cap (sql_tool.py, lines 291-296)                *)
(***************************************************************************)

\* C15: get_sample_data never asks the database for more than 100 rows: the
\* one statement it runs is "SELECT * FROM <table> LIMIT <n>" with n the
\* smaller of the requested limit and 100, and that statement passes the
\* read-only guard.
C15_SampleLimitCapped ==
    call.op = "get_sample_data" =>
        LET n == IF call.limit <= 100 THEN call.limit ELSE 100
        IN  /\ n <= 100
            /\ executed = << <<"S","E","L","E","C","T"," ","*"," ","F","R","O","M"," ">> \o call.table_name \o <<" ","L","I","M","I","T"," ">> \o IntStr(n) >>
            /\ LeadingKeyword(executed[1]) \in ReadOnlyWhitelist
            /\ ret.kind = "return"
            /\ ret.value # PolicyError

C15_Witness ==
    /\ call.op = "get_sample_data"
    /\ call.limit = 101
    /\ executed = << <<"S","E","L","E","C","T"," ","*"," ","F","R","O","M"," ","o","r","d","e","r","s"," ","L","I","M","I","T"," ","1","0","0">> >>
    /\ ret.kind = "return"
    /\ "sample_data" \in DOMAIN ret.value

(***************************************************************************)
(* The second server of the repository (src/weather.py): its own           *)
(* connection, with the driver's default cursor (rows are tuples), and the *)
(* tools fetch_data and get_table_list.                                    *)
(***************************************************************************)

\* rows the driver hands back on this connection: tuples of values
TupleRowSets ==
    { <<>>,
      << <<PyIntVal(1), PyStrVal(<<"p","a","i","d">>), PyDateVal(2024, 1, 2)>>,
         <<PyIntVal(2), PyNoneVal, PyDateTimeVal(2024, 1, 2, 3, 4, 5)>> >>,
      << <<PyDecimalVal(<<"1",".","5","0">>)>> >> }

TupleOutcomes ==
    { [kind |-> "rows", rows |-> r] : r \in TupleRowSets }
        \cup { [kind |-> "execute_raises", rows |-> <<>>], [kind |-> "fetch_raises", rows |-> <<>>] }

convert_dates(obj) ==
    IF obj.kind \in {"date", "datetime"} THEN PyStrVal(isoformat(obj)) ELSE obj

\* json.dumps without default= raises TypeError on a value it cannot encode
json_encodable(rows) ==
    \A i \in 1..Len(rows) : \A j \in 1..Len(rows[i]) : rows[i][j].kind \in {"str", "int", "none"}

weather_fetch_all_tables(d, fault) ==
    IF fault.at = 1 THEN Raised("OperationalError", <<ShowTables>>, 1)
    ELSE Returned([i \in 1..Len(d) |-> d[i].name], <<ShowTables>>)

weather_get_table_list(d, fault) == weather_fetch_all_tables(d, fault)

\* the caller's text goes to cursor.execute as it is
fetch_data(query, drv) ==
    IF drv.kind # "rows" THEN Raised("OperationalError", <<query>>, 1)
    ELSE LET queryData ==
                 [i \in 1..Len(drv.rows) |->
                     [j \in 1..Len(drv.rows[i]) |-> convert_dates(drv.rows[i][j])]]
         IN  IF json_encodable(queryData) THEN Returned(queryData, <<query>>)
             ELSE Raised("TypeError", <<query>>, 0)

InitWeather ==
    /\ db \in Databases
    /\ call = NoCall
    /\ ret = NoReply
    /\ executed = <<>>
    /\ open_cursors = 0
    /\ tasks = <<>>

Weather_fetch_data ==
    \E query \in Queries, drv \in TupleOutcomes :
        LET r == fetch_data(query, drv)
        IN  /\ CanRun(r)
            /\ call' = [op |-> "fetch_data", query |-> query, drv |-> drv.kind]
            /\ ret' = ReplyOf(r)
            /\ executed' = r.stmts
            /\ open_cursors' = open_cursors + r.leaked
            /\ UNCHANGED <<db, tasks>>

Weather_get_table_list ==
    \E fault \in Faults :
        LET r == weather_get_table_list(db, fault)
        IN  /\ CanRun(r)
            /\ call' = [op |-> "get_table_list", fault |-> fault]
            /\ ret' = ReplyOf(r)
            /\ executed' = r.stmts
            /\ open_cursors' = open_cursors + r.leaked
            /\ UNCHANGED <<db, tasks>>

NextWeather ==
    \/ Weather_fetch_data
    \/ Weather_get_table_list
    \/ Respond

SpecWeather == InitWeather /\ [][NextWeather]_vars

\* the tools of the repository that give text supplied by their caller to
\* cursor.execute
RunsCallerText == { "execute_query", "fetch_data" }

\* C17: in every tool of the repository that runs SQL text supplied by its
\* caller, a statement reaches the connection only if its leading keyword is
\* SELECT, SHOW, DESCRIBE or EXPLAIN: no tool hands caller text to the
\* connection without the guard.
C17_NoToolBypassesGuard ==
    call.op \in RunsCallerText =>
        \A i \in 1..Len(executed) : LeadingKeyword(executed[i]) \in ReadOnlyWhitelist

(***************************************************************************)
(* The table and the column the synthesizer picks                          *)
(* (sql_tool.py, lines 105-147)                                             *)
(***************************************************************************)

\* the tables of the snapshot, by position, whose lower-cased name is a
\* substring of the lower-cased request
MentionedTables ==
    LET request_lower == Lower(call.user_request)
    IN  { i \in 1..Len(call.table_schemas) :
            Contains(request_lower, Lower(call.table_schemas[i].table_name)) }

\* the tables of the snapshot the returned SQL selects from
ChosenTables ==
    { i \in 1..Len(call.table_schemas) :
        Contains(ret.value, <<" ","F","R","O","M"," ">> \o call.table_schemas[i].table_name) }

\* the type fragments that make a column qualify in category c
QualifyingFragments(c) ==
    CASE c = 3 -> { <<"i","n","t">>, <<"d","e","c","i","m","a","l">>, <<"f","l","o","a","t">>, <<"d","o","u","b","l","e">> }
      [] c \in {4, 5} -> { <<"i","n","t">>, <<"d","e","c","i","m","a","l">>, <<"f","l","o","a","t">>, <<"d","o","u","b","l","e">>, <<"d","a","t","e">>, <<"t","i","m","e">> }
      [] c = 6 -> { <<"v","a","r","c","h","a","r">>, <<"c","h","a","r">>, <<"t","e","x","t">>, <<"e","n","u","m">> }
      [] OTHER -> {}

\* the columns of table i, by position, that qualify in category c
QualifyingColumns(i, c) ==
    { j \in 1..Len(call.table_schemas[i].columns) :
        \E fragment \in QualifyingFragments(c) :
            Contains(Lower(call.table_schemas[i].columns[j].type), fragment) }

\* the mentioned tables category c can build its query from
UsableTables(c) ==
    { i \in MentionedTables : c \in {1, 2} \/ QualifyingColumns(i, c) # {} }

\* C18 as stated: in every category the table of the returned query is the
\* first table of the snapshot whose name occurs in the request; a later
\* table whose name occurs too is never chosen.
C18_FirstMentionedTableChosen ==
    (Synthesized /\ ret.value # Placeholder) => ChosenTables = { MinOf(MentionedTables) }

\* C18 amended: in the count and select-all categories the table of the
\* returned query is the first table of the snapshot whose name occurs in
\* the request; in the average, max, min and group-by categories it is the
\* first such table that has a qualifying column, so a later table is chosen
\* when the earlier ones named in the request have none.
C18_FirstUsableTableChosen ==
    (Synthesized /\ ret.value # Placeholder) =>
        LET usable == UsableTables(FirstOccurringCategory(call.user_request))
        IN  /\ usable # {}
            /\ ChosenTables = { MinOf(usable) }

C18_Witness ==
    /\ Synthesized
    /\ FirstOccurringCategory(call.user_request) = 3
    /\ MentionedTables = {1, 2}
    /\ call.table_schemas[1].table_name = T_events
    /\ ret.value = <<"S","E","L","E","C","T"," ","A","V","G","(","i","d",")"," ","a","s"," ","a","v","e","r","a","g","e","_","i","d"," ","F","R","O","M"," ","o","r","d","e","r","s">>

AggregateFn(c) == CASE c = 3 -> <<"A","V","G">> [] c = 4 -> <<"M","A","X">> [] OTHER -> <<"M","I","N">>
AggregateAlias(c) == CASE c = 3 -> <<"a","v","e","r","a","g","e">> [] c = 4 -> <<"m","a","x">> [] OTHER -> <<"m","i","n">>

\* C19: in the average category the column is the first one, in declared
\* order, whose lower-cased type contains int, decimal, float or double; in
\* the max and min categories date and time qualify as well; a table named
\* in the request that has no qualifying column yields no query, and the
\* search goes on with the next table.
C19_FirstQualifyingColumnOfFirstUsableTable ==
    (Synthesized /\ FirstOccurringCategory(call.user_request) \in {3, 4, 5}) =>
        LET c == FirstOccurringCategory(call.user_request)
            usable == UsableTables(c)
        IN  IF usable = {} THEN ret.value = Placeholder
            ELSE LET i == MinOf(usable)
                     schema == call.table_schemas[i]
                     column == schema.columns[MinOf(QualifyingColumns(i, c))].name
                 IN  ret.value = <<"S","E","L","E","C","T"," ">> \o AggregateFn(c) \o <<"(">> \o column \o <<")"," ","a","s"," ">>
                                     \o AggregateAlias(c) \o <<"_">> \o column
                                     \o <<" ","F","R","O","M"," ">> \o schema.table_name

C19_Witness ==
    /\ Synthesized
    /\ FirstOccurringCategory(call.user_request) = 4
    /\ ret.value = <<"S","E","L","E","C","T"," ","M","A","X","(","a","t",")"," ","a","s"," ","m","a","x","_","a","t"," ","F","R","O","M"," ","e","v","e","n","t","s">>

(***************************************************************************)
(* The builder emits what it is given (sql_tool.py, lines 151-196)          *)
(***************************************************************************)

\* the positions at which needle starts in hay
Occurrences(hay, needle) ==
    { i \in 1..(Len(hay) - Len(needle) + 1) : SubSeq(hay, i, i + Len(needle) - 1) = needle }

\* the text that opens condition i of the WHERE clause
ConditionOpener(items, i) ==
    (IF i = 1 THEN <<"W","H","E","R","E"," ">> ELSE <<" ","A","N","D"," ">>) \o items[i].column \o <<" ">>

\* C20: the builder escapes and validates nothing.  A string condition
\* value stands between single quotes exactly as supplied, a single quote
\* inside it included; every column of the column list, the table name, the
\* group_by text and the order_by text occur in the output unmodified; the
\* conditions stand in the order of the mapping, joined by " AND " and by
\* nothing else.
C20_TextsEmittedVerbatim ==
    Built =>
        LET q == ret.value
        IN  /\ Contains(q, <<" ","F","R","O","M"," ">> \o call.table_name)
            /\ HasContent(call.columns) =>
                   \A i \in 1..Len(call.columns[1]) : Contains(q, call.columns[1][i])
            /\ HasContent(call.group_by) => Contains(q, <<" ","G","R","O","U","P"," ","B","Y"," ">> \o call.group_by[1])
            /\ HasContent(call.order_by) => Contains(q, <<" ","O","R","D","E","R"," ","B","Y"," ">> \o call.order_by[1])
            /\ HasContent(call.where_conditions) =>
                   LET items == call.where_conditions[1]
                   IN  /\ \A i \in 1..Len(items) :
                              /\ Contains(q, ConditionOpener(items, i))
                              /\ items[i].condition.value.kind = "str" =>
                                     Contains(q, <<"'">> \o items[i].condition.value.s \o <<"'">>)
                              /\ i > 1 => IndexOf(q, ConditionOpener(items, i - 1))
                                              < IndexOf(q, ConditionOpener(items, i))
                       /\ Cardinality(Occurrences(q, <<" ","A","N","D"," ">>)) = Len(items) - 1
                       /\ Occurrences(q, <<" ","O","R"," ">>) = {}

C20_Witness ==
    /\ Built
    /\ call.where_conditions =
           Some(<< Item(C_status, ScalarCond(PyStrVal(<<"p","a","i","d">>))),
                   Item(C_name, DictCond(None, PyStrVal(<<"O","'","B","r","i","e","n">>))) >>)
    /\ ret.value = <<"S","E","L","E","C","T"," ","i","d",","," ","n","a","m","e"," ","F","R","O","M"," ","o","r","d","e","r","s"," ","W","H","E","R","E"," ","s","t","a","t","u","s"," ","="," ","'","p","a","i","d","'"," ","A","N","D"," ","n","a","m","e"," ","="," ","'","O","'","B","r","i","e","n","'"," ","G","R","O","U","P"," ","B","Y"," ","s","t","a","t","u","s"," ","O","R","D","E","R"," ","B","Y"," ","i","d"," ","D","E","S","C">>

(***************************************************************************)
(* get_all_table_schemas: one listing, one DESCRIBE per listed table       *)
(* (sql_tool.py, lines 218-233)                                             *)
(***************************************************************************)

\* the statements of a complete run on database d: SHOW TABLES once, then
\* DESCRIBE once per table, in listing order
AllSchemaStatements(d) ==
    <<ShowTables>> \o [i \in 1..Len(d) |-> <<"D","E","S","C","R","I","B","E"," ">> \o d[i].name]

IsPrefix(s, full) == Len(s) <= Len(full) /\ s = SubSeq(full, 1, Len(s))

\* the driver fails on one of the statements of the run
DriverFails(d, fault) == fault.at \in 1..(Len(d) + 1)

HostileTables ==
    { T_orders, <<"o","r","d","e","r","s",";"," ","D","R","O","P"," ","T","A","B","L","E"," ","u","s","e","r","s">>, <<>>, <<"x", "\n">> \o <<"D","E","L","E","T","E"," ","F","R","O","M"," ","y">> }
HostileColumns ==
    { None, Some(<< <<>> >>), Some(<< <<"D","R","O","P">> >>), Some(<< <<"i","d">>, <<"1",";"," ","D","E","L","E","T","E"," ","F","R","O","M"," ","t"," ","-","-">> >>) }
HostileWheres ==
    { None,
      Some(<< Item(C_name, ScalarCond(PyStrVal(<<"'"," ","O","R"," ","'","1","'","=","'","1">>))) >>),
      Some(<< Item(<<"D","R","O","P">>, DictCond(Some(<<";"," ","D","R","O","P"," ","T","A","B","L","E"," ","t",";"," ","-","-">>), PyIntVal(1))) >>) }
HostileTexts == { None, Some(<<"i","d",";"," ","D","R","O","P"," ","T","A","B","L","E"," ","t">>) }

SubmitRequests ==
    { <<"c","o","u","n","t"," ","o","r","d","e","r","s">>, <<"a","l","l"," ","u","s","e","r","s">>, <<"a","v","g"," ","o","r","d","e","r","s">>, <<"m","a","x"," ","e","v","e","n","t","s">>, <<"m","i","n"," ","u","s","e","r","s">>,
      <<"g","r","o","u","p","e","d"," ","b","y"," ","o","r","d","e","r","s">>, <<"h","e","l","l","o">>, <<"c","o","u","n","t"," ","n","o","t","h","i","n","g">> }

InitSubmit ==
    /\ \/ /\ db = <<>>
          /\ \E table_name \in HostileTables, columns \in HostileColumns,
                where_conditions \in HostileWheres, order_by \in HostileTexts,
                group_by \in HostileTexts, limit \in {None, Some(5)} :
                call = [op |-> "build_advanced_query", table_name |-> table_name,
                        columns |-> columns, where_conditions |-> where_conditions,
                        order_by |-> order_by, limit |-> limit, group_by |-> group_by]
       \/ /\ db \in Databases
          /\ \E user_request \in SubmitRequests :
                call = [op |-> "generate_sql_query", user_request |-> user_request,
                        table_schemas |-> SnapshotOf(db)]
    /\ ret = NoReply
    /\ executed = <<>>
    /\ open_cursors = 0
    /\ tasks = <<>>

\* the text the generator returned goes to execute_query
Submit ==
    \E drv \in DriverOutcomes :
        LET r == execute_query(ret.value, drv)
        IN  /\ call.op \in {"build_advanced_query", "generate_sql_query"}
            /\ ret.kind = "return"
            /\ call' = [op |-> "execute_query", sql_query |-> ret.value, drv |-> drv.kind,
                        rows |-> drv.rows, produced_by |-> call.op]
            /\ ret' = ReplyOf(r)
            /\ executed' = r.stmts
            /\ open_cursors' = open_cursors + r.leaked
            /\ UNCHANGED <<db, tasks>>

NextSubmit ==
    \/ Build
    \/ Synthesize
    \/ Submit

SpecSubmit == InitSubmit /\ [][NextSubmit]_vars

Submitted == call.op = "execute_query" /\ "produced_by" \in DOMAIN call

\* the first white-space-delimited token of a text, empty when it has none
FirstToken(text) == IF Split(text) = <<>> THEN <<>> ELSE Split(text)[1]

\* C22: every text build_advanced_query returns, and every text
\* generate_sql_query returns other than the placeholder, has SELECT as its
\* first white-space-delimited token, whatever the caller put into the table,
\* column and value arguments; submitted to the guarded executor it is
\* accepted and is the statement executed, while the placeholder, whose
\* first token is "--", is rejected and nothing is executed.
C22_GeneratedTextsPassGuard ==
    /\ (Built \/ (Synthesized /\ ret.value # Placeholder)) => FirstToken(ret.value) = <<"S","E","L","E","C","T">>
    /\ FirstToken(Placeholder) = <<"-","-">>
    /\ Submitted =>
           IF call.sql_query = Placeholder
           THEN /\ ret.kind = "return"
                /\ ret.value = PolicyError
                /\ executed = <<>>
           ELSE /\ executed = <<call.sql_query>>
                /\ ret.kind = "return"
                /\ ret.value # PolicyError
                /\ (call.drv = "rows" => ret.value.success)

C22_Witness ==
    /\ Submitted
    /\ call.produced_by = "build_advanced_query"
    /\ Contains(call.sql_query, <<"F","R","O","M"," ","o","r","d","e","r","s",";"," ","D","R","O","P"," ","T","A","B","L","E"," ","u","s","e","r","s">>)
    /\ Contains(call.sql_query, <<"'"," ","O","R"," ","'","1","'","=","'","1">>)
    /\ executed = <<call.sql_query>>
    /\ ret.kind = "return"
    /\ ret.value.success

(***************************************************************************)
(* The LIMIT clause of the builder (sql_tool.py, lines 189-194)             *)
(***************************************************************************)

EndsWith(text, suffix) ==
    Len(suffix) <= Len(text) /\ SubSeq(text, Len(text) - Len(suffix) + 1, Len(text)) = suffix

\* C23: whenever a limit is given to build_advanced_query, the value 0
\* included, the output ends with the clause "LIMIT <limit>"; it has no
\* LIMIT clause only when no limit was given.
C23_LimitEmittedWheneverGiven ==
    Built =>
        IF call.limit = None
        THEN ~Contains(ret.value, <<" ","L","I","M","I","T"," ">>)
        ELSE EndsWith(ret.value, <<" ","L","I","M","I","T"," ">> \o IntStr(call.limit[1]))

====
